---- MODULE Spec2Model ----
(***************************************************************************)
(* Gateway service (gateway_service/app/main.py): the conversation context *)
(* engine.  One inbound webhook message becomes one asyncio task running   *)
(* _process_message; every `await` of that coroutine is a point where the  *)
(* other tasks and the retention worker may run, so every action below is  *)
(* the code between two awaits.  The SQLite file is modelled as the        *)
(* committed database `db` plus at most one open write transaction `tx`    *)
(* (SQLite admits one writer; every operation opens its own connection,    *)
(* and a connection reads committed data only).                            *)
(***************************************************************************)
EXTENDS Integers, Sequences, FiniteSets, TLC

VARIABLES
    cfg,        \* the environment configuration read at import (lines 24-47)
    now,        \* the wall clock, in days
    db,         \* committed contents of the three tables
    tx,         \* <<>> or <<t>>: the write transaction currently open
    proc,       \* one record per _process_message task
    sweeper,    \* startup()'s eager purge and the _retention_worker task, with
                \* history: the last cutoff, the conversations the last
                \* purge removed rows of, whether it left rows, the cycles
                \* that failed
    hist        \* history, per conversation: turn rows deleted so far, summary
                \* upserts so far, whether two of its tasks ever ran together

vars == <<cfg, now, db, tx, proc, sweeper, hist>>

(***************************************************************************)
(* Bounds of the model.                                                    *)
(***************************************************************************)
MaxMsgs == 3        \* webhook messages accepted in one run
MaxTogether == 2    \* webhook messages in flight together
MaxRetries == 4     \* largest DISPATCH_MAX_RETRIES configured
MaxWakes == 1       \* times the retention worker wakes from its sleep
MaxWakesLong == 2   \* the same, in the longer runs of one message
MaxRetentionDays == 2   \* largest MESSAGE_RETENTION_DAYS configured

Msgs == 1..MaxMsgs

(***************************************************************************)
(* Program constants.                                                      *)
(***************************************************************************)
DISPATCH_INITIAL_DELAY == 1
SUMMARY_FETCH_LIMIT == 40
MESSAGE_RETENTION_DAYS == 1
RETENTION_INTERVAL == 2     \* RETENTION_INTERVAL_SECONDS, in days
CONTEXT_WINDOW_TURNS == 2
SUMMARY_UPDATE_EVERY_TURNS == 2
SUMMARY_TOKEN_THRESHOLD == 17
SUMMARY_MAX_CHARS == 20

FORGET_COMMAND == "/forget"
FORGET_CONFIRMATION == "Conversation history cleared for this chat."
UNAVAILABLE_REPLY == "Local assistant is currently unavailable. Please try again shortly."
NO_RESPONSE_REPLY == "I could not generate a response locally."
SUMMARY_PREFIX == "Conversation summary:\n"

Unset == "<unset>"

(***************************************************************************)
(* Inputs.  A conversation is keyed by (user_id, chat_id); the two keys    *)
(* share the chat_id, as two users of one group chat do.                   *)
(***************************************************************************)
FirstKey == <<"42", "7">>
Keys == {FirstKey, <<"43", "7">>}
Texts == {"hello", "/forget", " /Forget "}
PlainTexts == {"hello", "/forget"}
BackendReply == "pong"
BackendSummary == "user greets"

\* What one POST to the completion backend can come back with.
\*   ok        2xx, JSON object with usable content
\*   empty     2xx, JSON object without usable content
\*   status    4xx/5xx: raise_for_status raises httpx.HTTPStatusError
\*   transport connect/read failure or timeout: httpx.TransportError
\*   malformed 2xx whose body is not a JSON object: response.json() raises
\*             json.JSONDecodeError, or data.get raises AttributeError
Outcomes == {"ok", "empty", "status", "transport", "malformed"}
HTTPErrors == {"status", "transport"}
Failures == {"status", "transport", "malformed"}

Max(a, b) == IF a >= b THEN a ELSE b
Min(a, b) == IF a <= b THEN a ELSE b

(***************************************************************************)
(* str.strip() and str.lower() on the texts of the model.                  *)
(***************************************************************************)
Strip(t) ==
    CASE t = " /Forget " -> "/Forget"
      [] OTHER -> t

Lower(t) ==
    CASE t = "/Forget" -> "/forget"
      [] t = " /Forget " -> " /forget "
      [] OTHER -> t

IsForget(t) == Lower(Strip(t)) = FORGET_COMMAND

\* text[:n] on the texts of the model: the prefix of length n
PrefixPool == {"I could not generate"}
SuffixPool == {" a response locally."}
Truncate(text, n) ==
    IF Len(text) <= n THEN text
    ELSE CHOOSE pre \in PrefixPool :
            Len(pre) = n /\ \E suf \in SuffixPool : pre \o suf = text

\* _estimate_tokens
EstimateTokens(text) == Max(1, Len(text) \div 4)

(***************************************************************************)
(* The store.  Rows carry `msg`, the task that wrote them (history only).  *)
(***************************************************************************)
EmptyDb ==
    [audit |-> {}, turns |-> {}, summaries |-> {}, seqA |-> 0, seqT |-> 0]

\* _store_message_history
StoreMessageHistory(d, u, c, direction, text, ts, m) ==
    [d EXCEPT !.audit = @ \cup {[id |-> d.seqA + 1, user_id |-> u, chat_id |-> c,
                                 direction |-> direction, message_text |-> text,
                                 created_at |-> ts, msg |-> m]},
              !.seqA = @ + 1]

\* _store_conversation_message
StoreConversationMessage(d, u, c, role, content, ts, m) ==
    [d EXCEPT !.turns = @ \cup {[id |-> d.seqT + 1, user_id |-> u, chat_id |-> c,
                                 role |-> role, content |-> content,
                                 created_at |-> ts, msg |-> m]},
              !.seqT = @ + 1]

\* variant: the WHERE clause names the chat only
MatchesChatOnly(r, u, c) == r.chat_id = c

\* WHERE user_id = ? AND chat_id = ?
MatchesKey(r, u, c) == r.user_id = u /\ r.chat_id = c

ConvTurns(d, u, c) == {r \in d.turns : MatchesKey(r, u, c)}
ConvAudit(d, u, c) == {r \in d.audit : MatchesKey(r, u, c)}
ConvSummaries(d, u, c) == {r \in d.summaries : MatchesKey(r, u, c)}

\* _fetch_summary: <<>> (None) or <<row>>
FetchSummary(d, u, c) ==
    IF ConvSummaries(d, u, c) = {} THEN <<>>
    ELSE LET r == CHOOSE s \in ConvSummaries(d, u, c) : TRUE
         IN  <<[summary_text |-> r.summary_text, turn_count |-> r.turn_count,
                token_estimate |-> r.token_estimate]>>

RECURSIVE OrderByIdDesc(_)
OrderByIdDesc(S) ==
    IF S = {} THEN <<>>
    ELSE LET top == CHOOSE r \in S : \A q \in S : q.id <= r.id
         IN  <<top>> \o OrderByIdDesc(S \ {top})

Limit(s, n) == SubSeq(s, 1, Min(n, Len(s)))
\* variant: the rows are returned as the query gives them, newest first
Unreversed(s) == s
Reversed(s) == [i \in 1..Len(s) |-> s[Len(s) + 1 - i]]

\* _fetch_recent_turns: ORDER BY id DESC LIMIT ?, then reversed(rows)
FetchRecentTurns(d, u, c, limit) ==
    LET rows == Reversed(Limit(OrderByIdDesc(ConvTurns(d, u, c)), limit))
    IN  [i \in 1..Len(rows) |-> [role |-> rows[i].role, content |-> rows[i].content]]

\* variant: SELECT COUNT(*) without the WHERE clause
CountAllTurns(d, u, c) == Cardinality(d.turns)

\* _count_conversation_turns
CountConversationTurns(d, u, c) == Cardinality(ConvTurns(d, u, c))

\* variant: `if summary:` without the test of the stripped text
ContextMessagesAnySummary(summary, recent, text) ==
    (IF summary # <<>>
        THEN <<[role |-> "system", content |-> SUMMARY_PREFIX \o summary[1].summary_text]>>
        ELSE <<>>)
    \o recent
    \o <<[role |-> "user", content |-> text]>>

\* _build_context_messages, given what its two reads returned
ContextMessages(summary, recent, text) ==
    (IF summary # <<>> /\ Strip(summary[1].summary_text) # ""
        THEN <<[role |-> "system", content |-> SUMMARY_PREFIX \o summary[1].summary_text]>>
        ELSE <<>>)
    \o recent
    \o <<[role |-> "user", content |-> text]>>

\* variant: the update keeps the greater turn_count
UpsertSummaryMonotone(d, u, c, text, turnCount, tokens, ts) ==
    IF \E r \in d.summaries : r.user_id = u /\ r.chat_id = c /\ r.turn_count > turnCount
       THEN d
       ELSE [d EXCEPT !.summaries =
                {r \in @ : ~(r.user_id = u /\ r.chat_id = c)}
                \cup {[user_id |-> u, chat_id |-> c, summary_text |-> text,
                         turn_count |-> turnCount, token_estimate |-> tokens,
                         updated_at |-> ts]}]

\* variant: the conflict target is the chat alone, so the row of another
\* user of the chat is updated in place
UpsertSummaryByChat(d, u, c, text, turnCount, tokens, ts) ==
    IF \E r \in d.summaries : r.chat_id = c
       THEN [d EXCEPT !.summaries =
                {IF r.chat_id = c
                    THEN [r EXCEPT !.summary_text = text, !.turn_count = turnCount,
                                   !.token_estimate = tokens, !.updated_at = ts]
                    ELSE r : r \in @}]
       ELSE [d EXCEPT !.summaries =
                @ \cup {[user_id |-> u, chat_id |-> c, summary_text |-> text,
                         turn_count |-> turnCount, token_estimate |-> tokens,
                         updated_at |-> ts]}]

\* INSERT ... ON CONFLICT(user_id, chat_id) DO UPDATE SET ...
UpsertSummary(d, u, c, text, turnCount, tokens, ts) ==
    [d EXCEPT !.summaries =
        {r \in @ : ~MatchesKey(r, u, c)}
        \cup {[user_id |-> u, chat_id |-> c, summary_text |-> text,
               turn_count |-> turnCount, token_estimate |-> tokens,
               updated_at |-> ts]}]

\* variant: the DELETE on message_history is missing
ForgetKeepsAudit(d, k, u, c) ==
    CASE k = 1 -> [d EXCEPT !.turns = {r \in @ : ~(r.user_id = u /\ r.chat_id = c)}]
      [] k = 2 -> [d EXCEPT !.summaries = {r \in @ : ~(r.user_id = u /\ r.chat_id = c)}]
      [] k = 3 -> d

\* the k-th DELETE of _forget_conversation
ForgetStatement(d, k, u, c) ==
    CASE k = 1 -> [d EXCEPT !.turns = {r \in @ : ~MatchesKey(r, u, c)}]
      [] k = 2 -> [d EXCEPT !.summaries = {r \in @ : ~MatchesKey(r, u, c)}]
      [] k = 3 -> [d EXCEPT !.audit = {r \in @ : ~MatchesKey(r, u, c)}]

\* variant: `created_at <= ?` in place of `created_at < ?`
CleanupStatementInclusive(d, k, cutoff) ==
    CASE k = 1 -> [d EXCEPT !.audit = {r \in @ : ~(r.created_at <= cutoff)}]
      [] k = 2 -> [d EXCEPT !.turns = {r \in @ : ~(r.created_at <= cutoff)}]

\* the k-th DELETE of _cleanup_old_messages
CleanupStatement(d, k, cutoff) ==
    CASE k = 1 -> [d EXCEPT !.audit = {r \in @ : ~(r.created_at < cutoff)}]
      [] k = 2 -> [d EXCEPT !.turns = {r \in @ : ~(r.created_at < cutoff)}]

\* variant: reads share the connection of the open write transaction
ReaderViewShared == IF tx # <<>> THEN tx[1].view ELSE db

\* What a read on a connection of its own sees: committed data only.
ReaderView == db

\* SQLite admits one write transaction at a time.
NoWriter == tx = <<>>

(***************************************************************************)
(* Tasks.  `sent`, `appended`, `cleared`, `fresh`, `last` and `delays` are  *)
(* history: what the task handed to the transport, what it appended, what  *)
(* its reset found, whether its conversation had history when it arrived,  *)
(* the outcome of its last dispatch attempt and the delays it slept.       *)
(***************************************************************************)
IdleProc ==
    [pc |-> "idle", user_id |-> "", chat_id |-> "", text |-> "",
     stmt |-> 0, attempt |-> 0, delay |-> 0, delays |-> <<>>, last |-> Unset,
     ctxSummary |-> <<>>, context |-> <<>>, reply |-> Unset,
     total |-> 0, summary |-> <<>>, sumOutcome |-> Unset, sumCalls |-> 0,
     sent |-> <<>>, appended |-> <<>>, cleared |-> <<>>, fresh |-> FALSE]

\* The configurations checked, one environment each:
\*   alone     one message, under every retry budget, any spelling of the
\*             text and any backend outcome;
\*   degraded  one message, under every retention horizon, in a longer run
\*             in which an operation on the store may raise;
\*   sequence  MaxMsgs messages, each arriving when the one before is done,
\*             to any conversation;
\*   together  MaxTogether messages of one conversation in flight together,
\*             in a run shorter than the retention interval.
\* Where several messages are processed the retry budget is the default 1,
\* and outside `alone` the texts are the plain ones and the backend answers
\* or is unreachable.
Configs ==
    [chat_completions : BOOLEAN, DISPATCH_MAX_RETRIES : 0..MaxRetries,
     ENABLE_CONTEXT_SUMMARY : BOOLEAN,
     MESSAGE_RETENTION_DAYS : {MESSAGE_RETENTION_DAYS},
     mode : {"alone"}]
    \cup
    [chat_completions : BOOLEAN, DISPATCH_MAX_RETRIES : {1},
     ENABLE_CONTEXT_SUMMARY : BOOLEAN,
     MESSAGE_RETENTION_DAYS : MESSAGE_RETENTION_DAYS..MaxRetentionDays,
     mode : {"degraded"}]
    \cup
    [chat_completions : BOOLEAN, DISPATCH_MAX_RETRIES : {1},
     ENABLE_CONTEXT_SUMMARY : BOOLEAN,
     MESSAGE_RETENTION_DAYS : {MESSAGE_RETENTION_DAYS},
     mode : {"sequence", "together"}]

Together == cfg.mode = "together"
\* the number of webhook calls the environment makes
Webhooks ==
    CASE cfg.mode \in {"alone", "degraded"} -> 1
      [] cfg.mode = "sequence" -> MaxMsgs
      [] cfg.mode = "together" -> MaxTogether
\* the number of times the retention worker's sleep ends during the run
Wakes ==
    CASE cfg.mode = "degraded" -> MaxWakesLong
      [] cfg.mode \in {"alone", "sequence"} -> MaxWakes
      [] cfg.mode = "together" -> 0
\* whether an operation on the store may raise (sqlite3.Error)
StoreFaults == cfg.mode = "degraded"
\* the texts the environment sends
InboundTexts == IF cfg.mode = "alone" THEN Texts ELSE PlainTexts
\* what the backend answers
BackendOutcomes == IF cfg.mode = "alone" THEN Outcomes ELSE {"ok", "transport"}
\* the conversations it sends them to
InboundKeys == IF Together THEN {FirstKey} ELSE Keys

Init ==
    /\ cfg \in Configs
    /\ now = 0
    /\ db = EmptyDb
    /\ tx = <<>>
    /\ proc = [m \in Msgs |-> IdleProc]
    /\ sweeper = [phase |-> "startup", pc |-> "cleanup", cutoff |-> 0,
                  kept |-> FALSE, hit |-> {}, failed |-> 0]
    /\ hist = [key \in Keys |-> [removed |-> 0, upserts |-> 0, overlapped |-> FALSE]]


Running(m) == proc[m].pc \notin {"idle", "done", "crashed", "store_error"}

\* history bookkeeping: a commit that replaces d by e deleted these turn rows
RemovedAfter(d, e) ==
    [key \in Keys |->
        [hist[key] EXCEPT !.removed =
            @ + Cardinality(ConvTurns(d, key[1], key[2]) \ e.turns)]]

\* history bookkeeping: the conversation has no turn and no summary
NoHistory(d, u, c) == ConvTurns(d, u, c) = {} /\ ConvSummaries(d, u, c) = {}

(***************************************************************************)
(* telegram_webhook: the message is parsed (parse_webhook strips its       *)
(* text), a task is created and the handler returns; the task runs         *)
(* _process_message up to its first await.                                 *)
(***************************************************************************)
Webhook(m, u, c, t) ==
    /\ sweeper.phase = "worker"
    /\ proc[m].pc = "idle"
    /\ m <= Webhooks
    /\ Together \/ \A n \in Msgs : ~Running(n)
    /\ \A n \in Msgs : n < m => proc[n].pc # "idle"
    /\ proc' = [proc EXCEPT ![m] =
                  [IdleProc EXCEPT !.user_id = u, !.chat_id = c, !.text = Strip(t),
                                   !.fresh = NoHistory(db, u, c),
                                   !.pc = IF IsForget(Strip(t)) THEN "forget"
                                                         ELSE "store_inbound"]]
    /\ hist' = [hist EXCEPT ![<<u, c>>].overlapped =
                    @ \/ \E n \in Msgs : Running(n) /\ proc[n].user_id = u
                                                   /\ proc[n].chat_id = c]
    /\ UNCHANGED <<cfg, now, db, tx, sweeper>>

\* history bookkeeping: how many rows of each kind a reset found
ClearedBy(d, p) ==
    [turns |-> Cardinality(ConvTurns(d, p.user_id, p.chat_id)),
     summaries |-> Cardinality(ConvSummaries(d, p.user_id, p.chat_id)),
     audit |-> Cardinality(ConvAudit(d, p.user_id, p.chat_id))]

(***************************************************************************)
(* _forget_conversation: three DELETEs on one connection, then commit.     *)
(***************************************************************************)
ForgetExecute(m) ==
    LET p == proc[m] IN
    /\ p.pc = "forget"
    /\ IF p.stmt = 0
          THEN /\ NoWriter
               /\ tx' = <<[owner |-> m, kind |-> "forget", base |-> db,
                           view |-> ForgetStatement(db, 1, p.user_id, p.chat_id)]>>
          ELSE tx' = <<[tx[1] EXCEPT !.view =
                          ForgetStatement(@, p.stmt + 1, p.user_id, p.chat_id)]>>
    /\ proc' = [proc EXCEPT ![m].stmt = @ + 1,
                            ![m].pc = IF p.stmt + 1 = 3 THEN "forget_commit" ELSE "forget"]
    /\ UNCHANGED <<cfg, now, db, sweeper, hist>>

ForgetCommit(m) ==
    /\ proc[m].pc = "forget_commit"
    /\ db' = tx[1].view
    /\ tx' = <<>>
    /\ hist' = RemovedAfter(db, tx[1].view)
    /\ proc' = [proc EXCEPT ![m].pc = "forget_send",
                            ![m].cleared = <<ClearedBy(tx[1].base, proc[m])>>]
    /\ UNCHANGED <<cfg, now, sweeper>>

\* provider_adapter.send_message; an httpx.HTTPError is logged
ForgetSend(m, ok) ==
    /\ proc[m].pc = "forget_send"
    /\ proc' = [proc EXCEPT ![m].sent = Append(@, [chat_id |-> proc[m].chat_id,
                                                   text |-> FORGET_CONFIRMATION]),
                            ![m].pc = "done"]
    /\ UNCHANGED <<cfg, now, db, tx, sweeper, hist>>

(***************************************************************************)
(* _process_message, a message that is not the reset command.              *)
(***************************************************************************)
StoreInbound(m) ==
    LET p == proc[m] IN
    /\ p.pc = "store_inbound"
    /\ NoWriter
    /\ db' = StoreMessageHistory(db, p.user_id, p.chat_id, "inbound", p.text, now, m)
    /\ proc' = [proc EXCEPT ![m].pc = "store_user",
                            ![m].appended = Append(@, <<"audit", "inbound", p.text>>)]
    /\ UNCHANGED <<cfg, now, tx, sweeper, hist>>

\* where an attempt of _dispatch_to_openclaw starts
AttemptPc == IF cfg.chat_completions THEN "ctx_summary" ELSE "post"

\* `for attempt in range(1, DISPATCH_MAX_RETRIES + 1)` entered; with no
\* attempt to make the loop falls through to the ConnectError of line 417,
\* which _process_message turns into the fallback reply
EnterDispatch(p) ==
    IF cfg.DISPATCH_MAX_RETRIES >= 1
       THEN [p EXCEPT !.attempt = 1, !.delay = DISPATCH_INITIAL_DELAY, !.pc = AttemptPc]
       ELSE [p EXCEPT !.reply = UNAVAILABLE_REPLY, !.pc = "store_outbound"]

StoreUser(m) ==
    LET p == proc[m] IN
    /\ p.pc = "store_user"
    /\ NoWriter
    /\ db' = StoreConversationMessage(db, p.user_id, p.chat_id, "user", p.text, now, m)
    /\ proc' = [proc EXCEPT ![m] =
                    EnterDispatch([p EXCEPT !.appended = Append(@, <<"turn", "user", p.text>>)])]
    /\ UNCHANGED <<cfg, now, tx, sweeper, hist>>

\* _build_context_messages: its two reads
ContextFetchSummary(m) ==
    LET p == proc[m] IN
    /\ p.pc = "ctx_summary"
    /\ proc' = [proc EXCEPT ![m].ctxSummary = FetchSummary(ReaderView, p.user_id, p.chat_id),
                            ![m].pc = "ctx_turns"]
    /\ UNCHANGED <<cfg, now, db, tx, sweeper, hist>>

ContextFetchTurns(m) ==
    LET p == proc[m] IN
    /\ p.pc = "ctx_turns"
    /\ proc' = [proc EXCEPT ![m].context =
                    ContextMessages(p.ctxSummary,
                                    FetchRecentTurns(ReaderView, p.user_id, p.chat_id,
                                                     CONTEXT_WINDOW_TURNS),
                                    p.text),
                            ![m].ctxSummary = <<>>,
                            ![m].pc = "post"]
    /\ UNCHANGED <<cfg, now, db, tx, sweeper, hist>>

\* `except httpx.HTTPError`
Caught(o) == o \in HTTPErrors

\* `if attempt == DISPATCH_MAX_RETRIES: raise`
LastAttempt(p) == p.attempt = cfg.DISPATCH_MAX_RETRIES

\* what the body of a 2xx JSON-object response yields
ReplyOf(o) == IF o = "ok" THEN BackendReply ELSE NO_RESPONSE_REPLY

\* one attempt's POST has come back with outcome o
DispatchStep(p, o) ==
    LET q == [p EXCEPT !.last = o] IN
    CASE o \in {"ok", "empty"} -> [q EXCEPT !.reply = ReplyOf(o), !.pc = "store_outbound"]
      [] Caught(o) /\ LastAttempt(p) ->
            [q EXCEPT !.reply = UNAVAILABLE_REPLY, !.pc = "store_outbound"]
      [] Caught(o) /\ ~LastAttempt(p) -> [q EXCEPT !.pc = "backoff"]
      [] OTHER -> [q EXCEPT !.pc = "crashed"]

BackendPost(m, o) ==
    /\ proc[m].pc = "post"
    /\ proc' = [proc EXCEPT ![m] = DispatchStep(proc[m], o)]
    /\ UNCHANGED <<cfg, now, db, tx, sweeper, hist>>

\* variant: `delay += DISPATCH_INITIAL_DELAY` in place of `delay *= 2`
BackoffStepLinear(p) ==
    [p EXCEPT !.delays = Append(@, p.delay), !.delay = @ + DISPATCH_INITIAL_DELAY,
              !.attempt = @ + 1, !.pc = AttemptPc]

\* `await asyncio.sleep(delay); delay *= 2`, then the next attempt
BackoffStep(p) ==
    [p EXCEPT !.delays = Append(@, p.delay), !.delay = @ * 2,
              !.attempt = @ + 1, !.pc = AttemptPc]

Backoff(m) ==
    /\ proc[m].pc = "backoff"
    /\ proc' = [proc EXCEPT ![m] = BackoffStep(proc[m])]
    /\ UNCHANGED <<cfg, now, db, tx, sweeper, hist>>

StoreOutbound(m) ==
    LET p == proc[m] IN
    /\ p.pc = "store_outbound"
    /\ NoWriter
    /\ db' = StoreMessageHistory(db, p.user_id, p.chat_id, "outbound", p.reply, now, m)
    /\ proc' = [proc EXCEPT ![m].pc = "store_assistant",
                            ![m].appended = Append(@, <<"audit", "outbound", p.reply>>)]
    /\ UNCHANGED <<cfg, now, tx, sweeper, hist>>

\* variant: _maybe_update_summary without its test of ENABLE_CONTEXT_SUMMARY
StoreAssistantThenPolicy(m) ==
    LET p == proc[m] IN
    /\ p.pc = "store_assistant"
    /\ NoWriter
    /\ db' = StoreConversationMessage(db, p.user_id, p.chat_id, "assistant", p.reply, now, m)
    /\ proc' = [proc EXCEPT ![m].pc = "policy_count",
                            ![m].appended = Append(@, <<"turn", "assistant", p.reply>>)]
    /\ UNCHANGED <<cfg, now, tx, sweeper, hist>>

\* variant: the reply is sent before _maybe_update_summary is called
StoreAssistantThenSend(m) ==
    LET p == proc[m] IN
    /\ p.pc = "store_assistant"
    /\ NoWriter
    /\ db' = StoreConversationMessage(db, p.user_id, p.chat_id, "assistant", p.reply, now, m)
    /\ proc' = [proc EXCEPT ![m].pc = "send",
                            ![m].appended = Append(@, <<"turn", "assistant", p.reply>>)]
    /\ UNCHANGED <<cfg, now, tx, sweeper, hist>>

\* the assistant turn, then _maybe_update_summary up to its first read
StoreAssistant(m) ==
    LET p == proc[m] IN
    /\ p.pc = "store_assistant"
    /\ NoWriter
    /\ db' = StoreConversationMessage(db, p.user_id, p.chat_id, "assistant", p.reply, now, m)
    /\ proc' = [proc EXCEPT ![m].pc = IF cfg.ENABLE_CONTEXT_SUMMARY THEN "policy_count"
                                                                  ELSE "send",
                            ![m].appended = Append(@, <<"turn", "assistant", p.reply>>)]
    /\ UNCHANGED <<cfg, now, tx, sweeper, hist>>


(***************************************************************************)
(* _maybe_update_summary: three reads, then the decision.                  *)
(***************************************************************************)
PolicyCount(m) ==
    LET p == proc[m] IN
    /\ p.pc = "policy_count"
    /\ proc' = [proc EXCEPT ![m].total =
                    CountConversationTurns(ReaderView, p.user_id, p.chat_id),
                            ![m].pc = "policy_summary"]
    /\ UNCHANGED <<cfg, now, db, tx, sweeper, hist>>

PolicySummary(m) ==
    LET p == proc[m] IN
    /\ p.pc = "policy_summary"
    /\ proc' = [proc EXCEPT ![m].summary = FetchSummary(ReaderView, p.user_id, p.chat_id),
                            ![m].pc = "policy_turns"]
    /\ UNCHANGED <<cfg, now, db, tx, sweeper, hist>>

RECURSIVE SumTokens(_)
SumTokens(turns) ==
    IF turns = <<>> THEN 0
    ELSE EstimateTokens(Head(turns).content) + SumTokens(Tail(turns))

\* estimated_prompt_tokens
PromptTokens(summary, recent) ==
    SumTokens(recent) + (IF summary # <<>> THEN summary[1].token_estimate ELSE 0)

\* summarized_turn_count
SummarizedTurnCount(summary) == IF summary # <<>> THEN summary[1].turn_count ELSE 0

\* variant: `estimated_prompt_tokens > SUMMARY_TOKEN_THRESHOLD`
ShouldRefreshStrict(total, summary, recent) ==
    \/ total - SummarizedTurnCount(summary) >= SUMMARY_UPDATE_EVERY_TURNS
    \/ PromptTokens(summary, recent) > SUMMARY_TOKEN_THRESHOLD

\* should_refresh
ShouldRefresh(total, summary, recent) ==
    \/ total - SummarizedTurnCount(summary) >= SUMMARY_UPDATE_EVERY_TURNS
    \/ PromptTokens(summary, recent) >= SUMMARY_TOKEN_THRESHOLD

PolicyTurns(m) ==
    LET p == proc[m]
        recent == FetchRecentTurns(ReaderView, p.user_id, p.chat_id, CONTEXT_WINDOW_TURNS)
    IN
    /\ p.pc = "policy_turns"
    /\ proc' = [proc EXCEPT ![m].summary = <<>>,
                            ![m].pc = IF ShouldRefresh(p.total, p.summary, recent)
                                         THEN "summarize_fetch" ELSE "send"]
    /\ UNCHANGED <<cfg, now, db, tx, sweeper, hist>>

(***************************************************************************)
(* _summarize_conversation                                                 *)
(***************************************************************************)
SummarizeFetch(m) ==
    LET p == proc[m]
        turns == FetchRecentTurns(ReaderView, p.user_id, p.chat_id, SUMMARY_FETCH_LIMIT)
    IN
    /\ p.pc = "summarize_fetch"
    /\ proc' = [proc EXCEPT ![m].pc = IF turns = <<>> THEN "send" ELSE "summarize_post"]
    /\ UNCHANGED <<cfg, now, db, tx, sweeper, hist>>

\* variant: a failed summarisation request is made once more
SummarizeStepRetrying(p, o) ==
    LET q == [p EXCEPT !.sumCalls = @ + 1] IN
    CASE o = "ok" ->
            [q EXCEPT !.sumOutcome = Truncate(BackendSummary, SUMMARY_MAX_CHARS),
                      !.pc = "summarize_upsert"]
      [] o = "empty" ->
            [q EXCEPT !.sumOutcome = Truncate(NO_RESPONSE_REPLY, SUMMARY_MAX_CHARS),
                      !.pc = "summarize_upsert"]
      [] Caught(o) -> [q EXCEPT !.pc = IF q.sumCalls < 2 THEN "summarize_post" ELSE "send"]
      [] OTHER -> [q EXCEPT !.pc = "crashed"]

\* the summarisation request has come back with outcome o (one attempt only)
SummarizeStep(p, o) ==
    LET q == [p EXCEPT !.sumCalls = @ + 1] IN
    CASE o = "ok" ->
            [q EXCEPT !.sumOutcome = Truncate(BackendSummary, SUMMARY_MAX_CHARS),
                      !.pc = "summarize_upsert"]
      [] o = "empty" ->
            [q EXCEPT !.sumOutcome = Truncate(NO_RESPONSE_REPLY, SUMMARY_MAX_CHARS),
                      !.pc = "summarize_upsert"]
      [] Caught(o) -> [q EXCEPT !.pc = "send"]
      [] OTHER -> [q EXCEPT !.pc = "crashed"]

SummarizePost(m, o) ==
    /\ proc[m].pc = "summarize_post"
    /\ proc' = [proc EXCEPT ![m] = SummarizeStep(proc[m], o)]
    /\ UNCHANGED <<cfg, now, db, tx, sweeper, hist>>

\* the row _summarize_conversation writes
SummaryWrite(d, p, ts) ==
    UpsertSummary(d, p.user_id, p.chat_id, p.sumOutcome, p.total,
                  EstimateTokens(p.sumOutcome), ts)

SummarizeUpsert(m) ==
    /\ proc[m].pc = "summarize_upsert"
    /\ NoWriter
    /\ db' = SummaryWrite(db, proc[m], now)
    /\ proc' = [proc EXCEPT ![m].pc = "send"]
    /\ hist' = [hist EXCEPT ![<<proc[m].user_id, proc[m].chat_id>>].upserts = @ + 1]
    /\ UNCHANGED <<cfg, now, tx, sweeper>>

\* the steps of a task that open a connection to the store
StorePcs ==
    {"forget", "forget_commit", "store_inbound", "store_user", "ctx_summary",
     "ctx_turns", "store_outbound", "store_assistant", "policy_count",
     "policy_summary", "policy_turns", "summarize_fetch", "summarize_upsert"}

\* An operation on the store raises (sqlite3.Error from connect, execute or
\* commit).  Nothing of it is committed; no handler of _process_message or of
\* the functions it calls catches the exception, so the task ends there.
StoreRaises(m) ==
    /\ StoreFaults
    /\ proc[m].pc \in StorePcs
    /\ proc' = [proc EXCEPT ![m].pc = "store_error"]
    /\ tx' = IF tx # <<>> /\ tx[1].owner = m THEN <<>> ELSE tx
    /\ UNCHANGED <<cfg, now, db, sweeper, hist>>

\* provider_adapter.send_message(chat_id, reply); an httpx.HTTPError is logged
Send(m, ok) ==
    /\ proc[m].pc = "send"
    /\ proc' = [proc EXCEPT ![m].sent = Append(@, [chat_id |-> proc[m].chat_id,
                                                   text |-> proc[m].reply]),
                            ![m].pc = "done"]
    /\ UNCHANGED <<cfg, now, db, tx, sweeper, hist>>

(***************************************************************************)
(* Retention: startup() purges once, then starts _retention_worker, which  *)
(* purges at once and then after every sleep.  _cleanup_old_messages is    *)
(* two DELETEs on one connection, then commit.  `cutoff` keeps the last    *)
(* cutoff used (history).                                                  *)
(***************************************************************************)
\* cutoff = now - timedelta(days=MESSAGE_RETENTION_DAYS)
Cutoff(t) == t - cfg.MESSAGE_RETENTION_DAYS

\* _cleanup_old_messages, both DELETEs
CleanupStatements(d, cutoff) == CleanupStatement(CleanupStatement(d, 1, cutoff), 2, cutoff)

\* history bookkeeping: the conversations a purge that replaces d by e
\* removed rows of and, when it removed some, whether it left any row
SweptBy(d, e) ==
    LET gone == (d.audit \cup d.turns) \ (e.audit \cup e.turns) IN
    [hit |-> {key \in Keys : \E r \in gone : r.user_id = key[1] /\ r.chat_id = key[2]},
     kept |-> gone # {} /\ (e.audit \cup e.turns) # {}]

\* One purge.  Its transaction is private until the commit and is taken as
\* one step: it reads no task's data and no task reads its uncommitted rows.
Cleanup ==
    /\ sweeper.pc = "cleanup"
    /\ sweeper.phase \in {"startup", "worker"}
    /\ NoWriter
    /\ db' = CleanupStatements(db, Cutoff(now))
    /\ hist' = RemovedAfter(db, db')
    /\ sweeper' = [sweeper EXCEPT !.phase = "worker",
                                  !.pc = IF sweeper.phase = "startup" THEN "cleanup" ELSE "sleep",
                                  !.cutoff = Cutoff(now),
                                  !.kept = SweptBy(db, db').kept,
                                  !.hit = SweptBy(db, db').hit]
    /\ UNCHANGED <<cfg, now, tx, proc>>

\* One purge raises (the connection, a DELETE or the commit fails): nothing
\* is committed.  _retention_worker logs the exception and goes to sleep;
\* startup() has no handler, so the exception leaves startup(), the
\* application does not start and _retention_worker is never created.
CleanupFails ==
    /\ StoreFaults
    /\ sweeper.pc = "cleanup"
    /\ sweeper.phase \in {"startup", "worker"}
    /\ sweeper' = [sweeper EXCEPT !.phase = IF sweeper.phase = "startup"
                                               THEN "aborted" ELSE "worker",
                                  !.pc = IF sweeper.phase = "startup"
                                            THEN "cleanup" ELSE "sleep",
                                  !.failed = @ + 1]
    /\ UNCHANGED <<cfg, now, db, tx, proc, hist>>

\* asyncio.sleep(RETENTION_INTERVAL_SECONDS) returns
SweeperWake ==
    /\ sweeper.pc = "sleep"
    /\ now < Wakes * RETENTION_INTERVAL
    /\ now' = now + RETENTION_INTERVAL
    /\ sweeper' = [sweeper EXCEPT !.pc = "cleanup"]
    /\ UNCHANGED <<cfg, db, tx, proc, hist>>

Next ==
    \/ \E m \in Msgs, key \in InboundKeys, t \in InboundTexts : Webhook(m, key[1], key[2], t)
    \/ \E m \in Msgs : ForgetExecute(m)
    \/ \E m \in Msgs : ForgetCommit(m)
    \/ \E m \in Msgs, ok \in BOOLEAN : ForgetSend(m, ok)
    \/ \E m \in Msgs : StoreInbound(m)
    \/ \E m \in Msgs : StoreUser(m)
    \/ \E m \in Msgs : ContextFetchSummary(m)
    \/ \E m \in Msgs : ContextFetchTurns(m)
    \/ \E m \in Msgs, o \in BackendOutcomes : BackendPost(m, o)
    \/ \E m \in Msgs : Backoff(m)
    \/ \E m \in Msgs : StoreOutbound(m)
    \/ \E m \in Msgs : StoreAssistant(m)
    \/ \E m \in Msgs : PolicyCount(m)
    \/ \E m \in Msgs : PolicySummary(m)
    \/ \E m \in Msgs : PolicyTurns(m)
    \/ \E m \in Msgs : SummarizeFetch(m)
    \/ \E m \in Msgs, o \in BackendOutcomes : SummarizePost(m, o)
    \/ \E m \in Msgs : SummarizeUpsert(m)
    \/ \E m \in Msgs : StoreRaises(m)
    \/ \E m \in Msgs, ok \in BOOLEAN : Send(m, ok)
    \/ Cleanup
    \/ CleanupFails
    \/ SweeperWake

Spec == Init /\ [][Next]_vars

(***************************************************************************)
(* The reads of one message, from any stored history.  The store holds up  *)
(* to MaxHistory earlier turns of the two conversations, in any order, and *)
(* possibly a summary (with any text the code can have stored, the empty   *)
(* text of SUMMARY_MAX_CHARS=0 included, and any turn_count); the message  *)
(* has just had its inbound record and user turn stored.  The task then    *)
(* runs alone: _build_context_messages, the dispatch, the two stores,      *)
(* _maybe_update_summary and the send.                                     *)
(***************************************************************************)
MaxHistory == 3         \* earlier turns in the store
MaxSummarized == 4      \* largest turn_count of the stored summary

LongText == "hi there"
EarlierTurns ==
    [key : Keys, turn : {<<"user", "hello">>, <<"assistant", BackendReply>>}]
Histories == UNION {[1..n -> EarlierTurns] : n \in 0..MaxHistory}
StoredSummaries ==
    {<<>>} \cup
    {<<r>> : r \in [key : Keys,
                    summary_text : {"", BackendSummary,
                                    Truncate(NO_RESPONSE_REPLY, SUMMARY_MAX_CHARS)},
                    turn_count : 0..MaxSummarized]}

\* the store after the turns of h were appended by earlier tasks
RECURSIVE WithHistory(_)
WithHistory(h) ==
    IF h = <<>> THEN EmptyDb
    ELSE LET e == h[Len(h)] IN
         StoreConversationMessage(WithHistory(SubSeq(h, 1, Len(h) - 1)),
                                  e.key[1], e.key[2], e.turn[1], e.turn[2], 0, 0)

WithSummary(d, sm) ==
    IF sm = <<>> THEN d
    ELSE UpsertSummary(d, sm[1].key[1], sm[1].key[2], sm[1].summary_text,
                       sm[1].turn_count, EstimateTokens(sm[1].summary_text), 0)

ReadsConfigs ==
    [chat_completions : BOOLEAN, DISPATCH_MAX_RETRIES : {1},
     ENABLE_CONTEXT_SUMMARY : BOOLEAN,
     MESSAGE_RETENTION_DAYS : {MESSAGE_RETENTION_DAYS}, mode : {"reads"}]

InitReads ==
    /\ cfg \in ReadsConfigs
    /\ now = 0
    /\ tx = <<>>
    /\ sweeper = [phase |-> "worker", pc |-> "sleep", cutoff |-> 0,
                  kept |-> FALSE, hit |-> {}, failed |-> 0]
    /\ hist = [key \in Keys |-> [removed |-> 0, upserts |-> 0, overlapped |-> FALSE]]
    /\ \E h \in Histories, sm \in StoredSummaries, t \in {"hello", LongText} :
          LET d == WithSummary(WithHistory(h), sm)
              p == [IdleProc EXCEPT !.user_id = FirstKey[1], !.chat_id = FirstKey[2],
                                    !.text = t,
                                    !.fresh = NoHistory(d, FirstKey[1], FirstKey[2]),
                                    !.appended = <<<<"audit", "inbound", t>>,
                                                   <<"turn", "user", t>>>>]
          IN  /\ db = StoreConversationMessage(
                        StoreMessageHistory(d, p.user_id, p.chat_id, "inbound", t, 0, 1),
                        p.user_id, p.chat_id, "user", t, 0, 1)
              /\ proc = [m \in Msgs |-> IF m = 1 THEN EnterDispatch(p) ELSE IdleProc]

NextReads ==
    \/ \E m \in Msgs : ContextFetchSummary(m)
    \/ \E m \in Msgs : ContextFetchTurns(m)
    \/ \E m \in Msgs, o \in {"ok", "empty", "transport"} : BackendPost(m, o)
    \/ \E m \in Msgs : StoreOutbound(m)
    \/ \E m \in Msgs : StoreAssistant(m)
    \/ \E m \in Msgs : PolicyCount(m)
    \/ \E m \in Msgs : PolicySummary(m)
    \/ \E m \in Msgs : PolicyTurns(m)
    \/ \E m \in Msgs : SummarizeFetch(m)
    \/ \E m \in Msgs, o \in {"ok", "transport"} : SummarizePost(m, o)
    \/ \E m \in Msgs : SummarizeUpsert(m)
    \/ \E m \in Msgs, ok \in BOOLEAN : Send(m, ok)

SpecReads == InitReads /\ [][NextReads]_vars

(***************************************************************************)
(* Vocabulary of the properties.                                           *)
(***************************************************************************)
Accepted(p) == p.pc # "idle"
Over(p) == p.pc \in {"done", "crashed"}
IsReset(p) == Accepted(p) /\ IsForget(p.text)
IsChat(p) == Accepted(p) /\ ~IsForget(p.text)

\* the dispatch call of task p is over: it returned or an error left it
DispatchOver(p) ==
    \/ p.pc = "crashed" /\ p.reply = Unset
    \/ p.reply # Unset

\* a failed attempt is being followed by its backoff and the next attempt
Retrying(p) == p.pc \in {"backoff", "ctx_summary", "ctx_turns", "post"} /\ p.last # Unset

\* ... and every attempt it made failed (only a failed attempt is followed
\* by another, so the last one decides)
DispatchFailed(p) ==
    DispatchOver(p) /\ (p.attempt = 0 \/ p.last \in Failures)

\* an error left the dispatch call
DispatchRaised(p) ==
    \/ p.pc = "crashed" /\ p.reply = Unset
    \/ p.reply = UNAVAILABLE_REPLY

RECURSIVE Pow2(_)
Pow2(n) == IF n = 0 THEN 1 ELSE 2 * Pow2(n - 1)

InSeq(x, s) == \E i \in 1..Len(s) : s[i] = x

(***************************************************************************)
(* C1.  A message that is not the reset command and whose dispatch failed  *)
(* on every attempt ends with the fixed "currently unavailable" reply, and *)
(* that string is the outbound audit record, the assistant turn and the    *)
(* text handed to the transport.                                           *)
(***************************************************************************)
C1_FallbackStoredAndSent ==
    \A m \in Msgs :
        LET p == proc[m] IN
        (IsChat(p) /\ Over(p) /\ DispatchFailed(p)) =>
            /\ p.reply = UNAVAILABLE_REPLY
            /\ InSeq(<<"audit", "outbound", UNAVAILABLE_REPLY>>, p.appended)
            /\ InSeq(<<"turn", "assistant", UNAVAILABLE_REPLY>>, p.appended)
            /\ p.sent = <<[chat_id |-> p.chat_id, text |-> UNAVAILABLE_REPLY]>>

(***************************************************************************)
(* C2.  Every kind of dispatch failure (4xx/5xx status, transport failure, *)
(* malformed body) is turned into the fallback reply, and none leaves the  *)
(* message without its outbound record and its delivery attempt.           *)
(***************************************************************************)
C2_EveryFailureHandled ==
    \A m \in Msgs :
        LET p == proc[m] IN
        /\ (IsChat(p) /\ p.last \in Failures /\ ~Retrying(p)) =>
                p.reply = UNAVAILABLE_REPLY
        /\ (IsChat(p) /\ p.last \in Failures /\ Over(p)) =>
                /\ \E t \in {UNAVAILABLE_REPLY} : InSeq(<<"audit", "outbound", t>>, p.appended)
                /\ Len(p.sent) = 1

(***************************************************************************)
(* C3.  One dispatch call makes at most maxRetries attempts; an error      *)
(* leaves it only after the maxRetries-th attempt has failed; a success on *)
(* attempt k is returned with no attempt k+1; no success is returned when  *)
(* every attempt failed.                                                   *)
(***************************************************************************)
C3_RetryContract ==
    \A m \in Msgs :
        LET p == proc[m] IN
        IsChat(p) =>
            /\ p.attempt <= cfg.DISPATCH_MAX_RETRIES
            /\ DispatchRaised(p) =>
                  /\ p.attempt = cfg.DISPATCH_MAX_RETRIES
                  /\ p.attempt > 0 => p.last \in Failures
            /\ p.last \in {"ok", "empty"} =>
                  /\ p.reply = ReplyOf(p.last)
                  /\ ~Retrying(p)
            /\ (DispatchOver(p) /\ ~DispatchRaised(p)) => p.last \in {"ok", "empty"}

(***************************************************************************)
(* C4.  The delay waited after failed attempt k (k < maxRetries) is        *)
(* 2^(k-1) times the initial delay; a delay is waited only between two     *)
(* attempts, none after the last one; a dispatch whose maxRetries attempts *)
(* all failed waited maxRetries - 1 delays.                                *)
(***************************************************************************)
C4_BackoffDelays ==
    \A m \in Msgs :
        LET p == proc[m] IN
        /\ \A k \in 1..Len(p.delays) :
              /\ p.delays[k] = DISPATCH_INITIAL_DELAY * Pow2(k - 1)
              /\ k < cfg.DISPATCH_MAX_RETRIES
        /\ p.attempt >= 1 => Len(p.delays) = p.attempt - 1
        /\ p.attempt = 0 => p.delays = <<>>
        /\ (p.pc = "backoff") => p.attempt < cfg.DISPATCH_MAX_RETRIES
        /\ (DispatchOver(p) /\ p.last \in Failures /\ p.attempt = cfg.DISPATCH_MAX_RETRIES)
              => Len(p.delays) = cfg.DISPATCH_MAX_RETRIES - 1

\* a dispatch that failed four times and waited 1, 2 and 4 in between
C4_Witness ==
    \E m \in Msgs :
        /\ proc[m].delays = <<1, 2, 4>>
        /\ proc[m].last \in HTTPErrors
        /\ proc[m].reply = UNAVAILABLE_REPLY

(***************************************************************************)
(* C5.  Chat-completion route, summaries disabled, a conversation with no  *)
(* prior history: one user turn holding the text is stored, the backend is *)
(* invoked with the one-element context [{user: text}], and on success the *)
(* reply is stored as the assistant turn and handed to the transport.      *)
(***************************************************************************)
C5_FirstMessageContext ==
    \A m \in Msgs :
        LET p == proc[m] IN
        (IsChat(p) /\ p.fresh /\ ~Together
           /\ cfg.chat_completions /\ ~cfg.ENABLE_CONTEXT_SUMMARY) =>
            /\ p.pc = "post" =>
                  /\ p.context = <<[role |-> "user", content |-> p.text]>>
                  /\ p.appended = <<<<"audit", "inbound", p.text>>, <<"turn", "user", p.text>>>>
            /\ (p.pc = "done" /\ p.last = "ok") =>
                  /\ InSeq(<<"turn", "assistant", BackendReply>>, p.appended)
                  /\ p.sent = <<[chat_id |-> p.chat_id, text |-> BackendReply]>>

(***************************************************************************)
(* C6.  A message whose normalised text is "/forget" makes no backend      *)
(* call, appends no audit record and no turn of its own, hands the fixed   *)
(* confirmation to the transport, and its reset leaves the conversation    *)
(* without audit records, turns and summary.                               *)
(***************************************************************************)
ConversationEmpty(d, u, c) ==
    ConvTurns(d, u, c) = {} /\ ConvSummaries(d, u, c) = {} /\ ConvAudit(d, u, c) = {}

ResetCommits(m) == proc[m].pc = "forget_commit" /\ proc'[m].pc = "forget_send"

C6_ResetStep(m) ==
    LET p == proc'[m] IN
    IsReset(p) =>
        /\ p.attempt = 0 /\ p.last = Unset /\ p.sumCalls = 0
        /\ p.appended = <<>>
        /\ \A r \in db'.audit \cup db'.turns : r.msg # m
        /\ p.pc = "done" => p.sent = <<[chat_id |-> p.chat_id, text |-> FORGET_CONFIRMATION]>>
        /\ p.pc # "done" => p.sent = <<>>
        /\ ResetCommits(m) => ConversationEmpty(db', p.user_id, p.chat_id)
        /\ (~Together /\ p.pc = "forget_send") => ConversationEmpty(db', p.user_id, p.chat_id)

C6_ResetCommand == [][\A m \in Msgs : C6_ResetStep(m)]_vars

\* a reset of a conversation that had turns, a summary and audit records
C6_Witness ==
    \E m \in Msgs :
        /\ IsReset(proc[m]) /\ proc[m].pc = "done"
        /\ proc[m].cleared # <<>>
        /\ proc[m].cleared[1].turns > 0
        /\ proc[m].cleared[1].summaries > 0
        /\ proc[m].cleared[1].audit > 0
        /\ ConversationEmpty(db, proc[m].user_id, proc[m].chat_id)

(***************************************************************************)
(* C7.  The reset of (user_id, chat_id) removes every audit record, turn   *)
(* and summary of that key and leaves the records of every other key as    *)
(* they were.                                                              *)
(***************************************************************************)
OtherRows(d, u, c) ==
    <<{r \in d.turns : ~(r.user_id = u /\ r.chat_id = c)},
      {r \in d.summaries : ~(r.user_id = u /\ r.chat_id = c)},
      {r \in d.audit : ~(r.user_id = u /\ r.chat_id = c)}>>

C7_ResetFrame ==
    [][\A m \in Msgs :
          ResetCommits(m) =>
              /\ ConversationEmpty(db', proc[m].user_id, proc[m].chat_id)
              /\ OtherRows(db', proc[m].user_id, proc[m].chat_id)
                    = OtherRows(db, proc[m].user_id, proc[m].chat_id)]_vars

\* a reset has just committed while the other conversation holds records
C7_Witness ==
    \E m \in Msgs :
        /\ proc[m].pc = "forget_send"
        /\ proc[m].cleared[1].turns > 0
        /\ proc[m].cleared[1].summaries > 0
        /\ \E key \in Keys :
              /\ key # <<proc[m].user_id, proc[m].chat_id>>
              /\ ConvTurns(db, key[1], key[2]) # {}
              /\ ConvSummaries(db, key[1], key[2]) # {}
              /\ ConvAudit(db, key[1], key[2]) # {}

(***************************************************************************)
(* C8.  While a reset is in progress no read of the store sees some of the *)
(* conversation's record kinds removed and others not: it sees them all as *)
(* they were before the reset, or all removed.                             *)
(***************************************************************************)
ReadsOf(d, u, c) ==
    <<FetchRecentTurns(d, u, c, SUMMARY_FETCH_LIMIT), CountConversationTurns(d, u, c),
      FetchSummary(d, u, c), ConvAudit(d, u, c)>>

C8_ResetAtomicToReaders ==
    (tx # <<>> /\ tx[1].kind = "forget") =>
        LET p == proc[tx[1].owner] IN
        \/ ReadsOf(ReaderView, p.user_id, p.chat_id) = ReadsOf(tx[1].base, p.user_id, p.chat_id)
        \/ ReadsOf(ReaderView, p.user_id, p.chat_id) = ReadsOf(EmptyDb, p.user_id, p.chat_id)

\* a reset has executed some of its DELETEs on a conversation with turns and
\* audit records while another task of that conversation is about to read
C8_Witness ==
    /\ tx # <<>>
    /\ LET p == proc[tx[1].owner] IN
       /\ p.pc = "forget" /\ p.stmt \in {1, 2}
       /\ ConvTurns(tx[1].base, p.user_id, p.chat_id) # {}
       /\ ConvAudit(tx[1].base, p.user_id, p.chat_id) # {}
       /\ \E n \in Msgs :
             /\ n # tx[1].owner
             /\ proc[n].user_id = p.user_id /\ proc[n].chat_id = p.chat_id
             /\ proc[n].pc \in {"ctx_summary", "ctx_turns", "policy_count",
                                "policy_summary", "policy_turns", "summarize_fetch"}

(***************************************************************************)
(* C9.  As stated: in every reachable state the turn_count of a            *)
(* conversation's summary is at most the number of turns the conversation  *)
(* holds.  The retention purge deletes turns and leaves the summary, and a *)
(* refresh writes a count read before a reset or a purge committed.        *)
(***************************************************************************)
TurnCountOf(d, key) == (CHOOSE r \in ConvSummaries(d, key[1], key[2]) : TRUE).turn_count
TurnsHeld(d, key) == Cardinality(ConvTurns(d, key[1], key[2]))

C9_CountWithinTurnsHeld ==
    \A key \in Keys :
        ConvSummaries(db, key[1], key[2]) # {} => TurnCountOf(db, key) <= TurnsHeld(db, key)

(***************************************************************************)
(* C9, amended.  The turn_count of a conversation's summary is at most the *)
(* number of turns the conversation holds plus the number of its turns     *)
(* that resets and purges have deleted; while none has been deleted it is  *)
(* at most the number of turns held.                                       *)
(***************************************************************************)
C9_CountWithinTurnsWritten ==
    \A key \in Keys :
        ConvSummaries(db, key[1], key[2]) # {} =>
            /\ Cardinality(ConvSummaries(db, key[1], key[2])) = 1
            /\ TurnCountOf(db, key) <= TurnsHeld(db, key) + hist[key].removed
            /\ hist[key].removed = 0 => TurnCountOf(db, key) <= TurnsHeld(db, key)

\* a summary that counts every turn written while the purge has deleted some
C9_Witness ==
    \E key \in Keys :
        /\ ConvSummaries(db, key[1], key[2]) # {}
        /\ hist[key].removed > 0
        /\ TurnCountOf(db, key) >= SUMMARY_UPDATE_EVERY_TURNS
        /\ TurnCountOf(db, key) = TurnsHeld(db, key) + hist[key].removed

(***************************************************************************)
(* C10.  As stated: an upsert never replaces a conversation's summary by   *)
(* one with a smaller turn_count.  Two tasks of one conversation race      *)
(* (the later count may be written first), and after a purge the count     *)
(* restarts from the turns that are left.                                  *)
(***************************************************************************)
C10_CountStep(key) ==
    (ConvSummaries(db, key[1], key[2]) # {} /\ ConvSummaries(db', key[1], key[2]) # {})
        => TurnCountOf(db', key) >= TurnCountOf(db, key)

C10_CountNeverDecreases == [][\A key \in Keys : C10_CountStep(key)]_vars

(***************************************************************************)
(* C10, amended.  An upsert never replaces a conversation's summary by one *)
(* with a smaller turn_count, provided no turn of the conversation has     *)
(* been deleted by a reset or a purge and no two messages of the           *)
(* conversation were processed at the same time.                           *)
(***************************************************************************)
C10_CountNeverDecreasesUndisturbed ==
    [][\A key \in Keys :
          (hist'[key].removed = 0 /\ ~hist'[key].overlapped) => C10_CountStep(key)]_vars

\* a second upsert has raised the turn_count of an undisturbed conversation
C10_Witness ==
    \E key \in Keys :
        /\ hist[key].upserts >= 2
        /\ hist[key].removed = 0 /\ ~hist[key].overlapped
        /\ ConvSummaries(db, key[1], key[2]) # {}
        /\ TurnCountOf(db, key) >= 2 * SUMMARY_UPDATE_EVERY_TURNS

(***************************************************************************)
(* C11.  A purge with cutoff c removes every audit record and every turn   *)
(* with created_at < c, of whatever conversation, removes none with        *)
(* created_at >= c, adds nothing and leaves the summaries as they were.    *)
(***************************************************************************)
PurgeCommits ==
    sweeper.pc = "cleanup" /\ sweeper' # sweeper /\ sweeper'.failed = sweeper.failed

PurgedExactly(before, after, c) ==
    /\ after \subseteq before
    /\ \A r \in before : (r.created_at < c) <=> (r \notin after)

C11_PurgeOlderThan ==
    [][PurgeCommits =>
          /\ PurgedExactly(db.audit, db'.audit, Cutoff(now))
          /\ PurgedExactly(db.turns, db'.turns, Cutoff(now))
          /\ db'.summaries = db.summaries]_vars

\* the last purge removed rows of both conversations, left newer rows, and a
\* summary written before its cutoff is still stored
C11_Witness ==
    /\ sweeper.hit = Keys /\ sweeper.kept
    /\ \E r \in db.summaries : r.updated_at < sweeper.cutoff

(***************************************************************************)
(* C12.  recentTurns with limit W returns min(N, W) entries, N being the   *)
(* number of turns the conversation holds: the W turns of that             *)
(* conversation with the greatest ids, in increasing order of id.          *)
(***************************************************************************)
MaxLimit == 5           \* largest limit W asked for

\* the turn of conversation `key` that has exactly n newer turns of it
NthNewest(d, key, n) ==
    {q \in ConvTurns(d, key[1], key[2]) :
        Cardinality({x \in ConvTurns(d, key[1], key[2]) : x.id > q.id}) = n}

C12_RecentTurns ==
    \A key \in Keys, W \in 0..MaxLimit :
        LET r == FetchRecentTurns(ReaderView, key[1], key[2], W)
            N == Cardinality(ConvTurns(db, key[1], key[2]))
        IN  /\ Len(r) = IF N <= W THEN N ELSE W
            /\ \A i \in 1..Len(r) :
                  \E q \in NthNewest(db, key, Len(r) - i) :
                      r[i] = [role |-> q.role, content |-> q.content]

\* a context has been built for a conversation that holds more turns than
\* the window, a turn of the other conversation being newer than a turn of
\* the window
C12_Witness ==
    \E m \in Msgs :
        LET key == <<proc[m].user_id, proc[m].chat_id>> IN
        /\ proc[m].pc = "post" /\ cfg.chat_completions
        /\ Cardinality(ConvTurns(db, key[1], key[2])) > CONTEXT_WINDOW_TURNS
        /\ Len(proc[m].context) > CONTEXT_WINDOW_TURNS
        /\ \E q \in db.turns, n \in 0..(CONTEXT_WINDOW_TURNS - 1) :
              /\ ~(q.user_id = key[1] /\ q.chat_id = key[2])
              /\ \E x \in NthNewest(db, key, n) : x.id < q.id

(***************************************************************************)
(* C13.  The context built for a message with text t ends with the user    *)
(* entry holding t; it has at most one system entry, which is then the     *)
(* first entry; the system entry is there exactly when the conversation    *)
(* has a summary whose text is not blank, and it carries that text; the    *)
(* entries in between are the W most recent turns, oldest first.           *)
(***************************************************************************)
ContextBuilt(m) == proc[m].pc = "ctx_turns" /\ proc'[m].pc = "post"

NonBlankSummaries(d, key) ==
    {r \in ConvSummaries(d, key[1], key[2]) : r.summary_text \notin {"", " "}}

C13_ContextShape(m) ==
    LET key == <<proc[m].user_id, proc[m].chat_id>>
        ctx == proc'[m].context
        lead == IF NonBlankSummaries(db, key) # {} THEN 1 ELSE 0
        N == Cardinality(ConvTurns(db, key[1], key[2]))
        n == IF N <= CONTEXT_WINDOW_TURNS THEN N ELSE CONTEXT_WINDOW_TURNS
    IN  /\ Len(ctx) = lead + n + 1
        /\ ctx[Len(ctx)] = [role |-> "user", content |-> proc[m].text]
        /\ \A i \in 1..Len(ctx) : ctx[i].role = "system" => i = 1
        /\ (ctx[1].role = "system") <=> (lead = 1)
        /\ lead = 1 => \E r \in NonBlankSummaries(db, key) :
                          ctx[1].content = SUMMARY_PREFIX \o r.summary_text
        /\ \A i \in 1..n :
              \E q \in NthNewest(db, key, n - i) :
                  ctx[lead + i] = [role |-> q.role, content |-> q.content]

C13_ContextAssembly == [][\A m \in Msgs : ContextBuilt(m) => C13_ContextShape(m)]_vars

\* a context of summary entry, CONTEXT_WINDOW_TURNS turns and user entry has
\* been built for a conversation that holds more turns than the window
C13_Witness ==
    \E m \in Msgs :
        /\ proc[m].pc = "post" /\ cfg.chat_completions /\ proc[m].attempt = 1
        /\ Len(proc[m].context) = CONTEXT_WINDOW_TURNS + 2
        /\ proc[m].context[1].role = "system"
        /\ Cardinality(ConvTurns(db, proc[m].user_id, proc[m].chat_id)) > CONTEXT_WINDOW_TURNS

(***************************************************************************)
(* C14.  With summaries enabled a refresh is triggered exactly when        *)
(* total - last >= SUMMARY_UPDATE_EVERY_TURNS or recentTokens >=           *)
(* SUMMARY_TOKEN_THRESHOLD: total the turns the conversation holds, last   *)
(* the turn_count of its summary (0 without one), recentTokens the sum of  *)
(* max(1, len / 4) over its W newest turns plus the summary's              *)
(* token_estimate.  A value on a threshold triggers; one below both does   *)
(* not.                                                                    *)
(***************************************************************************)
PolicyDecides(m) == proc[m].pc = "policy_turns" /\ proc'[m].pc # "policy_turns"
Triggered(m) == proc'[m].pc = "summarize_fetch"

TokensOf(text) == IF Len(text) \div 4 >= 1 THEN Len(text) \div 4 ELSE 1

RECURSIVE NewestTokens(_, _, _)
NewestTokens(d, key, n) ==
    IF n = 0 THEN 0
    ELSE NewestTokens(d, key, n - 1)
         + (IF NthNewest(d, key, n - 1) = {} THEN 0
            ELSE TokensOf((CHOOSE q \in NthNewest(d, key, n - 1) : TRUE).content))

TurnGap(d, key) ==
    TurnsHeld(d, key) - (IF ConvSummaries(d, key[1], key[2]) = {} THEN 0
                         ELSE TurnCountOf(d, key))

RecentTokens(d, key) ==
    NewestTokens(d, key, CONTEXT_WINDOW_TURNS)
    + (IF ConvSummaries(d, key[1], key[2]) = {} THEN 0
       ELSE (CHOOSE r \in ConvSummaries(d, key[1], key[2]) : TRUE).token_estimate)

C14_Decision(m) ==
    LET key == <<proc[m].user_id, proc[m].chat_id>> IN
    /\ cfg.ENABLE_CONTEXT_SUMMARY
    /\ Triggered(m) <=> (\/ TurnGap(db, key) >= SUMMARY_UPDATE_EVERY_TURNS
                         \/ RecentTokens(db, key) >= SUMMARY_TOKEN_THRESHOLD)
    /\ ~Triggered(m) => proc'[m].pc = "send"
    /\ (TurnGap(db, key) = SUMMARY_UPDATE_EVERY_TURNS
            \/ RecentTokens(db, key) = SUMMARY_TOKEN_THRESHOLD) => Triggered(m)
    /\ (TurnGap(db, key) = SUMMARY_UPDATE_EVERY_TURNS - 1
            /\ RecentTokens(db, key) = SUMMARY_TOKEN_THRESHOLD - 1) => ~Triggered(m)

C14_RefreshPolicy == [][\A m \in Msgs : PolicyDecides(m) => C14_Decision(m)]_vars

\* a refresh has been triggered by the token estimate standing on the
\* threshold, the turn count being one short of its own
C14_Witness ==
    \E m \in Msgs :
        LET key == <<proc[m].user_id, proc[m].chat_id>> IN
        /\ proc[m].pc = "summarize_fetch"
        /\ RecentTokens(db, key) = SUMMARY_TOKEN_THRESHOLD
        /\ TurnGap(db, key) = SUMMARY_UPDATE_EVERY_TURNS - 1

\* the other cases of the decision: the turn count on its threshold with few
\* tokens, and both values one below their thresholds
C14_OnTurnThreshold ==
    \E m \in Msgs :
        LET key == <<proc[m].user_id, proc[m].chat_id>> IN
        /\ proc[m].pc = "summarize_fetch"
        /\ RecentTokens(db, key) < SUMMARY_TOKEN_THRESHOLD - 1
        /\ TurnGap(db, key) = SUMMARY_UPDATE_EVERY_TURNS

C14_BelowBoth ==
    \E m \in Msgs :
        LET key == <<proc[m].user_id, proc[m].chat_id>> IN
        /\ proc[m].pc = "send" /\ proc[m].sumCalls = 0 /\ cfg.ENABLE_CONTEXT_SUMMARY
        /\ RecentTokens(db, key) = SUMMARY_TOKEN_THRESHOLD - 1
        /\ TurnGap(db, key) = SUMMARY_UPDATE_EVERY_TURNS - 1

(***************************************************************************)
(* C15.  Once the reply of a non-reset message is computed, an error of    *)
(* the store while the outbound record or the assistant turn is stored or  *)
(* while the summary is evaluated or updated does not block delivery: the  *)
(* reply is handed to the transport.                                       *)
(***************************************************************************)
C15_DeliveredDespiteStoreError ==
    \A m \in Msgs :
        LET p == proc[m] IN
        (IsChat(p) /\ p.pc = "store_error" /\ p.reply # Unset)
            => p.sent = <<[chat_id |-> p.chat_id, text |-> p.reply]>>

(***************************************************************************)
(* C16.  startup() purges once before the retention worker is started,     *)
(* and a purge that fails, the one of startup() included, is not fatal:    *)
(* the worker is there afterwards, asleep until the next cycle or purging. *)
(***************************************************************************)
C16_SweeperSurvivesFailure ==
    /\ sweeper.phase = "startup" => \A m \in Msgs : proc[m].pc = "idle"
    /\ sweeper.failed > 0 =>
          /\ sweeper.phase = "worker"
          /\ sweeper.pc \in {"sleep", "cleanup"}

(***************************************************************************)
(* C17.  The tasks of one conversation are not serialised.  Every summary  *)
(* upsert that commits replaces the stored summary by its own text and     *)
(* turn_count, whatever the stored turn_count was; runs exist in which the *)
(* reply to the later message is stored before the reply to the earlier    *)
(* one and in which the upsert that commits last carries the smaller       *)
(* turn_count.                                                             *)
(***************************************************************************)
UpsertCommits(m) == proc[m].pc = "summarize_upsert" /\ proc'[m].pc = "send"

C17_LastWriterWins ==
    [][\A m \in Msgs :
          UpsertCommits(m) =>
              LET key == <<proc[m].user_id, proc[m].chat_id>> IN
              /\ Cardinality(ConvSummaries(db', key[1], key[2])) = 1
              /\ \A r \in ConvSummaries(db', key[1], key[2]) :
                    /\ r.summary_text = proc[m].sumOutcome
                    /\ r.turn_count = proc[m].total
                    /\ r.token_estimate = TokensOf(proc[m].sumOutcome)]_vars

\* two messages of one conversation are done: the reply to the second was
\* stored before the reply to the first, both upserts committed, and the
\* summary left is the one with the smaller turn_count
C17_Witness ==
    /\ proc[1].pc = "done" /\ proc[2].pc = "done"
    /\ proc[1].user_id = proc[2].user_id /\ proc[1].chat_id = proc[2].chat_id
    /\ \E r1, r2 \in db.turns :
          /\ r1.msg = 1 /\ r1.role = "assistant"
          /\ r2.msg = 2 /\ r2.role = "assistant"
          /\ r2.id < r1.id
    /\ LET key == <<proc[1].user_id, proc[1].chat_id>> IN
       /\ hist[key].upserts = 2 /\ hist[key].removed = 0
       /\ ConvSummaries(db, key[1], key[2]) # {}
       /\ TurnCountOf(db, key) < TurnsHeld(db, key)

(***************************************************************************)
(* C18.  When the summarisation request fails the refresh is skipped: the  *)
(* store is left as it was, the reply is not changed and is handed to the  *)
(* transport next.                                                         *)
(***************************************************************************)
SummarizationFails(m) ==
    proc[m].pc = "summarize_post" /\ proc'[m].pc \notin {"summarize_post", "summarize_upsert"}

C18_FailedRefreshSkipped ==
    [][\A m \in Msgs :
          SummarizationFails(m) =>
              /\ db' = db
              /\ proc'[m].reply = proc[m].reply
              /\ proc'[m].pc = "send"]_vars

(***************************************************************************)
(* C19.  With ENABLE_CONTEXT_SUMMARY off no task evaluates the refresh     *)
(* policy, none sends a summarisation request, and no summary is created   *)
(* or changed.                                                             *)
(***************************************************************************)
PolicyPcs ==
    {"policy_count", "policy_summary", "policy_turns", "summarize_fetch",
     "summarize_post", "summarize_upsert"}

C19_SummariesDisabled ==
    [][~cfg.ENABLE_CONTEXT_SUMMARY =>
          /\ \A m \in Msgs : proc'[m].pc \notin PolicyPcs
                             /\ proc'[m].sumCalls = 0 /\ proc'[m].total = 0
          /\ db'.summaries \subseteq db.summaries
          /\ \A key \in Keys : hist'[key].upserts = 0]_vars

\* with summaries off, a conversation holds turns enough for a refresh and
\* its tasks are done
C19_Witness ==
    /\ ~cfg.ENABLE_CONTEXT_SUMMARY
    /\ \E key \in Keys :
          /\ TurnsHeld(db, key) >= 2 * SUMMARY_UPDATE_EVERY_TURNS
          /\ \E m \in Msgs : proc[m].pc = "done" /\ proc[m].sent # <<>>
                             /\ <<proc[m].user_id, proc[m].chat_id>> = key
    /\ \A m \in Msgs : ~Running(m)

(***************************************************************************)
(* C20.  A non-reset message goes Received, Stored, Dispatched,            *)
(* RepliedStored, SummaryChecked, Sent in that order: the inbound record   *)
(* and the user turn are stored before the first backend attempt, the      *)
(* outbound record and the assistant turn before the policy is evaluated,  *)
(* and the reply is handed to the transport after both.  A reset message   *)
(* goes Received, Forgotten and enters none of the other states.           *)
(***************************************************************************)
ResetPcs == {"forget", "forget_commit", "forget_send"}

Stored(p) ==
    Len(p.appended) >= 2
    /\ SubSeq(p.appended, 1, 2) = <<<<"audit", "inbound", p.text>>, <<"turn", "user", p.text>>>>
Dispatched(p) == p.attempt >= 1 \/ p.reply # Unset
RepliedStored(p) ==
    /\ p.reply # Unset
    /\ p.appended = <<<<"audit", "inbound", p.text>>, <<"turn", "user", p.text>>,
                      <<"audit", "outbound", p.reply>>, <<"turn", "assistant", p.reply>>>>
SummaryChecking(p) == p.pc \in PolicyPcs
Sending(p) == p.pc = "send" \/ p.sent # <<>>

C20_Order(m) ==
    LET p == proc[m]
        q == proc'[m]
    IN
    /\ IsChat(q) =>
          /\ q.pc \notin ResetPcs /\ q.cleared = <<>>
          /\ Dispatched(q) => Stored(q)
          /\ Len(q.appended) > 2 => Dispatched(q) /\ q.reply # Unset
          /\ SummaryChecking(q) => RepliedStored(q)
          /\ Sending(q) => RepliedStored(q)
          /\ (q.pc = "send" /\ p.pc # "send") =>
                IF cfg.ENABLE_CONTEXT_SUMMARY
                   THEN p.pc \in PolicyPcs \ {"policy_count", "policy_summary"}
                   ELSE p.pc = "store_assistant"
          /\ q.sent # <<>> => q.pc = "done" /\ q.sent = <<[chat_id |-> q.chat_id, text |-> q.reply]>>
    /\ IsReset(q) =>
          /\ q.pc \in ResetPcs \cup {"done", "store_error"}
          /\ q.appended = <<>> /\ ~Dispatched(q) /\ q.sumCalls = 0
          /\ q.pc = "done" => p.pc \in {"done", "forget_send"}

C20_StepOrder == [][\A m \in Msgs : C20_Order(m)]_vars

\* a message has been through every state: stored, dispatched after a
\* retry, reply stored, summary refreshed, sent
C20_Witness ==
    \E m \in Msgs :
        /\ IsChat(proc[m]) /\ proc[m].pc = "done"
        /\ proc[m].attempt >= 2 /\ proc[m].sumCalls = 1
        /\ RepliedStored(proc[m])
        /\ proc[m].sent = <<[chat_id |-> proc[m].chat_id, text |-> proc[m].reply]>>

(***************************************************************************)
(* C21.  Provided every backend call returns or fails and the store does   *)
(* not fail, no accepted message stops short: a task that takes no further *)
(* step has, for a non-reset message, stored the outbound record and       *)
(* handed the reply to the transport, and, for a reset message, committed  *)
(* the reset.  (A task that is not stopped always has a step to take; so   *)
(* the eventuality claimed fails exactly where this fails.)                *)
(***************************************************************************)
Stopped(p) == p.pc \in {"done", "crashed"}

C21_NoTaskStopsShort ==
    \A m \in Msgs :
        LET p == proc[m] IN
        Stopped(p) =>
            /\ IsChat(p) => /\ InSeq(<<"audit", "outbound", p.reply>>, p.appended)
                            /\ p.sent # <<>>
            /\ IsReset(p) => p.cleared # <<>>

(***************************************************************************)
(* C22.  Retries do not multiply the effects of a message: whatever the    *)
(* number of attempts, a non-reset message appends at most one inbound     *)
(* record, user turn, outbound record and assistant turn (the first two    *)
(* exactly once as soon as the dispatch has begun, all four exactly once   *)
(* when it is done), makes at most one summarisation request, is handed to *)
(* the transport at most once, and the text handed over is the content of  *)
(* the assistant turn stored for it.                                       *)
(***************************************************************************)
Times(x, s) == Cardinality({i \in 1..Len(s) : s[i] = x})
RowsOf(rows, m, kind) ==
    {r \in rows : r.msg = m /\ (IF "direction" \in DOMAIN r THEN r.direction ELSE r.role) = kind}

C22_EffectsOnce ==
    \A m \in Msgs :
        LET p == proc[m] IN
        IsChat(p) =>
            /\ Times(<<"audit", "inbound", p.text>>, p.appended) <= 1
            /\ Times(<<"turn", "user", p.text>>, p.appended) <= 1
            /\ Cardinality({i \in 1..Len(p.appended) : p.appended[i][2] = "outbound"}) <= 1
            /\ Cardinality({i \in 1..Len(p.appended) : p.appended[i][2] = "assistant"}) <= 1
            /\ Len(p.appended) <= 4
            /\ Cardinality(RowsOf(db.audit, m, "inbound")) <= 1
            /\ Cardinality(RowsOf(db.turns, m, "user")) <= 1
            /\ Cardinality(RowsOf(db.audit, m, "outbound")) <= 1
            /\ Cardinality(RowsOf(db.turns, m, "assistant")) <= 1
            /\ p.attempt >= 1 =>
                  /\ Times(<<"audit", "inbound", p.text>>, p.appended) = 1
                  /\ Times(<<"turn", "user", p.text>>, p.appended) = 1
            /\ p.pc = "done" => Len(p.appended) = 4
            /\ p.sumCalls <= 1
            /\ Len(p.sent) <= 1
            /\ p.sent # <<>> =>
                  /\ InSeq(<<"turn", "assistant", p.sent[1].text>>, p.appended)
                  /\ \A r \in RowsOf(db.turns, m, "assistant") : r.content = p.sent[1].text

\* a message is done after three failed attempts and a fourth one: each of
\* its four records is stored once, one summarisation request was made, and
\* it was handed to the transport once
C22_Witness ==
    \E m \in Msgs :
        /\ IsChat(proc[m]) /\ proc[m].pc = "done"
        /\ proc[m].attempt >= 4 /\ Len(proc[m].delays) >= 3
        /\ proc[m].sumCalls = 1
        /\ Len(proc[m].sent) = 1
        /\ Cardinality(RowsOf(db.audit, m, "inbound")) = 1
        /\ Cardinality(RowsOf(db.turns, m, "user")) = 1
        /\ Cardinality(RowsOf(db.audit, m, "outbound")) = 1
        /\ Cardinality(RowsOf(db.turns, m, "assistant")) = 1

====
